---- MODULE Spec2Model ----
(***************************************************************************)
(* A model of the narrative graph engine of VNE:                           *)
(*   - the runtime (src/VNEcore.py): ScriptParser.parse, StoryManager      *)
(*     (start, advance_dialogue, make_choice, _go_to_node) and the         *)
(*     variable store of VNEngine;                                         *)
(*   - the script compiler of the editor (src/VNEeditor.py):               *)
(*     VNEditor._compile_script and VNEditor._parse_script_file.           *)
(*                                                                         *)
(* SpecEngine is the play session over a script drawn from a bounded set   *)
(* of graphs; SpecCompile is one run of the compiler over authoring text   *)
(* drawn from a bounded set of line sequences.                             *)
(***************************************************************************)
EXTENDS Integers, Sequences, FiniteSets, TLC

VARIABLES
    \* ---- runtime (VNEcore.py) ----
    script_content,   \* the decoded JSON handed to ScriptParser.parse
    script,           \* StoryManager.script (NoScript until loaded)
    current_node,     \* StoryManager.current_node, the cursor
    game_vars,        \* VNEngine.game_vars, the variable store
    outcome,          \* how the last call ended: "ok" or the exception raised
    log,              \* warnings/errors the last call logged
    last_op,          \* the last call made on the engine
    last_arg,         \* its argument (the choice_index of make_choice)
    \* ---- compiler (VNEeditor.py) ----
    start_scene,      \* project_config.get("start_scene", "main")
    script_files,     \* the .vn files of the project, each a sequence of lines
    file_idx,         \* which file _compile_script is processing
    compiled_script,  \* the script being built: [start, nodes]
    i,                \* _parse_script_file: index of the next line (0-based)
    current_node_id,  \* _parse_script_file: id of the accumulating node
    node_counter,     \* _parse_script_file: the id counter
    cpc,              \* position of the compiler
    \* SaveLoadManager and the front end
    save_files,       \* the save directory: slot name -> the JSON document
    saved_at,         \* history: slot name -> cursor and store when saved
    state,            \* what get_current_state returned last
    \* VNEditor._check_script_flow
    editor,           \* the current editor tab: [open, lines]
    flow_results,     \* what the flow check found
    fpc,              \* position of the flow check
    \* VNEngine.run and GUIManager
    gui,              \* the text-display state of GUIManager
    lpc               \* position of the game loop

engine_vars == <<script_content, script, current_node, game_vars, outcome, log,
                 last_op, last_arg>>
compile_vars == <<start_scene, script_files, file_idx, compiled_script, i,
                  current_node_id, node_counter, cpc>>
session_vars == <<save_files, saved_at, state>>
flow_vars == <<editor, flow_results, fpc>>
loop_vars == <<gui, lpc>>
vars == <<engine_vars, compile_vars, session_vars, flow_vars, loop_vars>>

(***************************************************************************)
(* Python values.  A story value is a pair <<kind, n>>: None, a bool, an   *)
(* int, or a string (n indexes the strings in lexicographic order).        *)
(***************************************************************************)
None == <<"none", 0>>
PyTrue == <<"bool", 1>>
PyInt(n) == <<"int", n>>
PyStr(n) == <<"str", n>>

IsNumber(v) == v[1] \in {"bool", "int"}

\* Python ==: bool is a subclass of int (True == 1); values of unrelated
\* types are unequal; None equals only None.
PyEq(a, b) == IF IsNumber(a) /\ IsNumber(b) THEN a[2] = b[2] ELSE a = b

\* Python <, >, <=, >= are defined between two numbers or two strings and
\* raise TypeError otherwise (None included).
PyOrderable(a, b) == \/ IsNumber(a) /\ IsNumber(b)
                     \/ a[1] = "str" /\ b[1] = "str"

\* A Python dict as a function; d[k] = v
DictSet(d, k, v) == [x \in DOMAIN d \cup {k} |-> IF x = k THEN v ELSE d[x]]

\* dict.update order is immaterial: keys are distinct
RECURSIVE DictUpdateKeys(_, _, _)
DictUpdateKeys(d, e, ks) ==
    IF ks = {} THEN d
    ELSE LET k == CHOOSE x \in ks : TRUE
         IN DictUpdateKeys(DictSet(d, k, e[k]), e, ks \ {k})

\* an assignment that adds to a number already stored
set_variables_adding(d, e) ==
    [k \in DOMAIN d \cup DOMAIN e |->
        IF k \notin DOMAIN e THEN d[k]
        ELSE IF k \in DOMAIN d /\ d[k][1] = "int" /\ e[k][1] = "int"
        THEN PyInt(d[k][2] + e[k][2])
        ELSE e[k]]

\* for var_name, var_value in e.items(): set_variable(var_name, var_value)
set_variables(d, e) == DictUpdateKeys(d, e, DOMAIN e)

\* VNEngine.get_variable(name) with default None
get_variable(d, name) == IF name \in DOMAIN d THEN d[name] ELSE None

EmptyDict == << >>

(***************************************************************************)
(* Bounds of the play-session model.                                       *)
(***************************************************************************)
\* The interpreter's limit on nested calls (CPython: 1000 frames), scaled
\* down.  No chain of distinct (node, store) pairs of the graphs below is
\* this long, so only a genuine cycle reaches it.
RecursionLimit == 8
\* make_choice is tried with every index in -MaxIndex .. MaxIndex
MaxIndex == 3

NodeIds == {"a", "b", "c"}
\* an id that is a key of no script
Missing == "zz"
Targets == NodeIds \cup {Missing}
\* StoryManager.current_node before start()
NoNode == "None"
\* StoryManager.script before load_script()
NoScript == [loaded |-> FALSE]

Operators == {"==", "!=", ">", "<", ">=", "<="}

(***************************************************************************)
(* Node shapes (the JSON objects under "nodes").  An optional key is       *)
(* absent from the record's domain, as it is from the Python dict.         *)
(***************************************************************************)
DialogueNodes(T) ==
    {[type |-> "dialogue", text |-> "hello"]}
    \cup {[type |-> "dialogue", text |-> "hello", next |-> n] : n \in T}

EndNodes == {[type |-> "end"]}

SetNodes(T) ==
    LET A == {[x |-> PyInt(1)], [x |-> PyInt(2), y |-> PyInt(1)]}
    IN {[type |-> "set", variables |-> a] : a \in A}
       \cup {[type |-> "set", variables |-> a, next |-> n] : a \in A, n \in T}

ConditionNodes(Ops, TF) ==
    {[type |-> "condition",
      condition |-> [variable |-> "x", operator |-> op, value |-> PyInt(1)],
      true |-> tf[1], false |-> tf[2]] : op \in Ops, tf \in TF}

\* the options a choice node may carry: with and without a "set" key
ChoiceOptions ==
    {[text |-> "one", set |-> [x |-> PyInt(1)], target |-> "b"],
     [text |-> "two", target |-> "c"],
     [text |-> "three", set |-> [y |-> PyInt(2)], target |-> Missing]}

ChoiceLists ==
    {<< >>} \cup {<<o>> : o \in ChoiceOptions}
    \cup UNION {{<<o, p>> : p \in ChoiceOptions \ {o}} : o \in ChoiceOptions}

ChoiceNodes ==
    {[type |-> "choice", choices |-> cs] : cs \in ChoiceLists}
    \cup {[type |-> "choice", text |-> "which?", choices |-> cs, next |-> "b"] :
             cs \in {<<o>> : o \in ChoiceOptions}}

\* node "a" ranges over every shape
ShapesA ==
    DialogueNodes({"b", Missing}) \cup EndNodes \cup SetNodes({"a", "b", Missing})
    \cup ConditionNodes(Operators \cup {"~"}, {<<"b", "c">>})
    \cup ConditionNodes({"=="}, {<<Missing, "c">>, <<"a", "a">>})
    \cup ChoiceNodes

\* node "b" is mostly the auto-resolved kinds, node "c" a resting place
ShapesB ==
    DialogueNodes({}) \cup SetNodes({"b", "c"})
    \cup ConditionNodes({"==", ">"}, {<<"c", "a">>})
    \cup {[type |-> "choice", choices |-> <<o>>] : o \in ChoiceOptions}

ShapesC == DialogueNodes({"a"}) \cup EndNodes

InitialVariables == {EmptyDict, [x |-> PyTrue], [x |-> PyStr(0)]}

\* the decoded JSON documents the loader may be handed: a story starting at
\* "a", one starting at "b", and documents the loader has to turn down
ScriptContents ==
    {[start |-> "a", nodes |-> [a |-> na, b |-> nb, c |-> nc], variables |-> v] :
        na \in ShapesA, nb \in ShapesB, nc \in ShapesC, v \in InitialVariables}
    \cup {[start |-> "b", nodes |-> [a |-> na, b |-> nb, c |-> nc], variables |-> v] :
        na \in DialogueNodes({"b"}), nb \in ShapesB, nc \in ShapesC,
        v \in InitialVariables}
    \cup {[start |-> "a", nodes |-> [a |-> na, b |-> nb, c |-> nc]] :
        na \in DialogueNodes({"b"}), nb \in SetNodes({"c"}), nc \in ShapesC}
    \cup {[start |-> Missing, nodes |-> [a |-> na], variables |-> EmptyDict] :
        na \in ShapesA}
    \cup {[nodes |-> [a |-> n]] : n \in EndNodes}
    \cup {[start |-> "a"]}

(***************************************************************************)
(* ScriptParser.parse: the structure checks made on the decoded JSON.      *)
(* TRUE when the script is returned, FALSE when ValueError is raised.      *)
(***************************************************************************)
parse(script_data) ==
    /\ "nodes" \in DOMAIN script_data
    /\ "start" \in DOMAIN script_data
    /\ script_data["start"] \in DOMAIN script_data["nodes"]

(***************************************************************************)
(* StoryManager._go_to_node.  st is [current_node, game_vars, outcome,     *)
(* log]; depth counts the nested calls.                                    *)
(***************************************************************************)
\* the comparison of lines 363-377: "true", "false", or the exception
EvalCondition(condition, gv) ==
    LET var_value == get_variable(gv, condition.variable)
        value == condition.value
        op == condition.operator
    IN IF op = "==" THEN (IF PyEq(var_value, value) THEN "true" ELSE "false")
       ELSE IF op = "!=" THEN (IF PyEq(var_value, value) THEN "false" ELSE "true")
       ELSE IF op \in {">", "<", ">=", "<="} THEN
            IF ~PyOrderable(var_value, value) THEN "TypeError"
            ELSE IF op = ">" THEN (IF var_value[2] > value[2] THEN "true" ELSE "false")
            ELSE IF op = "<" THEN (IF var_value[2] < value[2] THEN "true" ELSE "false")
            ELSE IF op = ">=" THEN (IF var_value[2] >= value[2] THEN "true" ELSE "false")
            ELSE (IF var_value[2] <= value[2] THEN "true" ELSE "false")
       ELSE "unknown"

RECURSIVE go_to_node(_, _, _, _)
go_to_node(nodes, node_id, st, depth) ==
    IF depth > RecursionLimit THEN [st EXCEPT !.outcome = "RecursionError"]
    ELSE IF node_id \notin DOMAIN nodes
    THEN [st EXCEPT !.log = @ \cup {"Node not found"}]
    ELSE
      LET node == nodes[node_id]
          st1 == [st EXCEPT !.current_node = node_id]
      IN IF node.type = "condition" THEN
           LET r == EvalCondition(node.condition, st1.game_vars)
               st2 == IF r = "unknown"
                      THEN [st1 EXCEPT !.log = @ \cup {"Unknown operator"}]
                      ELSE st1
           IN IF r = "TypeError" THEN [st1 EXCEPT !.outcome = "TypeError"]
              ELSE go_to_node(nodes, IF r = "true" THEN node.true ELSE node.false,
                              st2, depth + 1)
         ELSE IF node.type = "set" THEN
           LET st2 == [st1 EXCEPT !.game_vars = set_variables(@, node.variables)]
           IN IF "next" \in DOMAIN node
              THEN go_to_node(nodes, node.next, st2, depth + 1)
              ELSE st2
         ELSE st1

\* the state a call starts from
Entry == [current_node |-> current_node, game_vars |-> game_vars,
          outcome |-> "ok", log |-> {}]

\* the call's effect on the session
Commit(st, op, arg) ==
    /\ current_node' = st.current_node
    /\ game_vars' = st.game_vars
    /\ outcome' = st.outcome
    /\ log' = st.log
    /\ last_op' = op
    /\ last_arg' = arg

\* an uncaught exception ends the game loop (VNEngine.run catches nothing)
Running == outcome = "ok"

(***************************************************************************)
(* The play session: StoryManager's operations as the host calls them.     *)
(***************************************************************************)
\* StoryManager.load_script: parse the file; on any exception log and keep
\* self.script as it was.  A session loads its script once
\* (VNEngine.load_game), and the script then stays as loaded.
load_script ==
    /\ Running
    /\ script = NoScript
    /\ IF parse(script_content)
       THEN /\ script' = script_content
            /\ log' = {}
       ELSE /\ script' = script
            /\ log' = {"Error loading script"}
    /\ last_op' = "load_script"
    /\ last_arg' = 0
    /\ UNCHANGED <<script_content, current_node, game_vars, outcome>>

\* StoryManager.start
start ==
    /\ Running
    /\ IF script = NoScript
       THEN Commit([Entry EXCEPT !.log = {"Cannot start story: No script loaded"}],
                   "start", 0)
       ELSE LET variables == IF "variables" \in DOMAIN script
                             THEN script.variables ELSE EmptyDict
            IN Commit([Entry EXCEPT !.current_node = script.start,
                                    !.game_vars = set_variables(@, variables)],
                      "start", 0)
    /\ UNCHANGED <<script_content, script>>

\* advance_dialogue with the type tested before the "next" key and a choice
\* node resolved to its first option
advance_dialogue_first_option ==
    /\ Running
    /\ IF current_node = NoNode
       THEN Commit(Entry, "advance_dialogue", 0)
       ELSE LET node == script.nodes[current_node]
            IN IF node.type = "choice" /\ node.choices # << >>
               THEN Commit(go_to_node(script.nodes, node.choices[1].target, Entry, 1),
                           "advance_dialogue", 0)
               ELSE IF "next" \in DOMAIN node
               THEN Commit(go_to_node(script.nodes, node.next, Entry, 1),
                           "advance_dialogue", 0)
               ELSE Commit(Entry, "advance_dialogue", 0)
    /\ UNCHANGED <<script_content, script>>

\* advance_dialogue that stores the "next" id as the cursor without
\* looking it up
advance_dialogue_unchecked ==
    /\ Running
    /\ IF current_node = NoNode
       THEN Commit(Entry, "advance_dialogue", 0)
       ELSE LET node == script.nodes[current_node]
            IN IF "next" \in DOMAIN node
               THEN Commit([Entry EXCEPT !.current_node = node.next],
                           "advance_dialogue", 0)
               ELSE Commit(Entry, "advance_dialogue", 0)
    /\ UNCHANGED <<script_content, script>>

\* StoryManager.advance_dialogue
advance_dialogue ==
    /\ Running
    /\ IF current_node = NoNode
       THEN Commit(Entry, "advance_dialogue", 0)
       ELSE LET node == script.nodes[current_node]
            IN IF "next" \in DOMAIN node
               THEN Commit(go_to_node(script.nodes, node.next, Entry, 1),
                           "advance_dialogue", 0)
               ELSE Commit(Entry, "advance_dialogue", 0)
    /\ UNCHANGED <<script_content, script>>

\* node['choices'][choice_index]: a negative index counts from the end,
\* an index outside -len .. len-1 raises IndexError
PyIndexOk(seq, idx) == -Len(seq) <= idx /\ idx < Len(seq)
PyIndex(seq, idx) == IF idx >= 0 THEN seq[idx + 1] ELSE seq[Len(seq) + idx + 1]

\* make_choice that goes to the target before it applies the option's "set"
make_choice_set_last(choice_index) ==
    /\ Running
    /\ IF current_node = NoNode
       THEN Commit(Entry, "make_choice", choice_index)
       ELSE LET node == script.nodes[current_node]
            IN IF node.type # "choice" \/ choice_index >= Len(node.choices)
               THEN Commit([Entry EXCEPT !.log = {"Invalid choice"}],
                           "make_choice", choice_index)
               ELSE IF ~PyIndexOk(node.choices, choice_index)
               THEN Commit([Entry EXCEPT !.outcome = "IndexError"],
                           "make_choice", choice_index)
               ELSE LET choice == PyIndex(node.choices, choice_index)
                        st == go_to_node(script.nodes, choice.target, Entry, 1)
                    IN Commit(IF "set" \in DOMAIN choice
                              THEN [st EXCEPT
                                      !.game_vars = set_variables(@, choice.set)]
                              ELSE st,
                              "make_choice", choice_index)
    /\ UNCHANGED <<script_content, script>>

\* StoryManager.make_choice(choice_index)
make_choice(choice_index) ==
    /\ Running
    /\ IF current_node = NoNode
       THEN Commit(Entry, "make_choice", choice_index)
       ELSE LET node == script.nodes[current_node]
            IN IF node.type # "choice" \/ choice_index >= Len(node.choices)
               THEN Commit([Entry EXCEPT !.log = {"Invalid choice"}],
                           "make_choice", choice_index)
               ELSE IF ~PyIndexOk(node.choices, choice_index)
               THEN Commit([Entry EXCEPT !.outcome = "IndexError"],
                           "make_choice", choice_index)
               ELSE LET choice == PyIndex(node.choices, choice_index)
                        st == IF "set" \in DOMAIN choice
                              THEN [Entry EXCEPT
                                      !.game_vars = set_variables(@, choice.set)]
                              ELSE Entry
                    IN Commit(go_to_node(script.nodes, choice.target, st, 1),
                              "make_choice", choice_index)
    /\ UNCHANGED <<script_content, script>>

(***************************************************************************)
(* The script compiler (VNEeditor.py).                                     *)
(*                                                                         *)
(* An authoring line is a record [ws, kind, name, a, b]:                   *)
(*   ws    the line has leading whitespace                                 *)
(*   kind  "blank"  an empty or all-whitespace line                        *)
(*         "hash"   the line starts with #                                 *)
(*         "at"     @<name>:<a>[:<b>]  (name, a, b may be empty)           *)
(*         "atword" @<name> with no colon                                  *)
(*         "arrow"  -><a>                                                  *)
(*         "text"   anything else, <a>                                     *)
(* str.strip, str.startswith and the regular expressions of the compiler   *)
(* are computed on these fields.                                           *)
(***************************************************************************)
Line(ws, kind, name, a, b) == [ws |-> ws, kind |-> kind, name |-> name, a |-> a, b |-> b]

\* the empty string, as a line and as a node's text
Blank == Line(FALSE, "blank", "", "", "")

\* line.strip()
Strip(l) == [l EXCEPT !.ws = FALSE]

\* line.startswith("#"), line.startswith("->"), line.startswith("@<name>:")
StartsWithHash(l) == ~l.ws /\ l.kind = "hash"
StartsWithArrow(l) == ~l.ws /\ l.kind = "arrow"
StartsWithCommand(l, name) == ~l.ws /\ l.kind = "at" /\ l.name = name

\* re.match(r"@scene:([^:]+)(?::(.+))?", line), and the same for
\* @character, @bgm, @sound: the id group needs one character at least
CommandMatch(l) == l.a # ""

\* re.match(r"@([^:]+):([^:]+)", line)
ExpressionMatch(l) == ~l.ws /\ l.kind = "at" /\ l.name # "" /\ l.a # ""

\* float(s) and int(s) succeed on these literals, raise ValueError otherwise
IsFloatLiteral(s) == s \in {"0", "2.5", "50", "100"}
IsIntLiteral(s) == s \in {"0", "50", "100"}

\* the node ids, f"scene_{scene_id}_{n}", f"dialogue_{n}", f"choice_{n}",
\* f"choice_target_{n}_{j}", f"bgm_{n}", f"sound_{n}": the rendering is
\* one-to-one on (prefix, scene id, n, j)
NodeId(prefix, scene_id, n, j) == <<prefix, scene_id, n, j>>
\* current_node_id = None
NoId == NodeId("None", "", -1, -1)
\* the default start_scene of a project
MainId == NodeId("main", "", -1, -1)

\* compiled_script["nodes"]: a dict in insertion order, as a sequence of
\* [id, node] entries
Keys(d) == {d[k].id : k \in DOMAIN d}
IndexOf(d, id) == CHOOSE k \in DOMAIN d : d[k].id = id
Get(d, id) == d[IndexOf(d, id)].node
\* d[id] = node: a new key goes last, an old key keeps its place
Put(d, id, node) ==
    IF id \in Keys(d)
    THEN [d EXCEPT ![IndexOf(d, id)] = [id |-> id, node |-> node]]
    ELSE Append(d, [id |-> id, node |-> node])

NewCharacter(expression) ==
    [position |-> "center", expression |-> expression, visible |-> TRUE]

\* the state of one _parse_script_file call while it reads its lines
ParseState(nodes, idx, cur, counter, error) ==
    [nodes |-> nodes, i |-> idx, current_node_id |-> cur,
     node_counter |-> counter, error |-> error]

\* lines 3407-3418 (and 3445-3456, 3521-3531, 3547-3557): create a node
\* when there is no current node
EnsureNode(st, prefix, node) ==
    IF st.current_node_id = NoId
    THEN LET id == NodeId(prefix, "", st.node_counter, -1)
         IN [st EXCEPT !.current_node_id = id,
                       !.node_counter = @ + 1,
                       !.nodes = Put(@, id, node)]
    ELSE st

\* lines 3401-3430 and 3439-3468: a character or expression line
CharacterLine(st0, lines, char_id, expression) ==
    LET has_next == st0.i < Len(lines)
        dialogue == IF has_next THEN Strip(lines[st0.i + 1]) ELSE Blank
        st1 == IF has_next THEN [st0 EXCEPT !.i = @ + 1] ELSE st0
        st2 == EnsureNode(st1, "dialogue",
                          [type |-> "dialogue", characters |-> EmptyDict,
                           text |-> Blank])
        id == st2.current_node_id
        node == Get(st2.nodes, id)
        node1 == IF "character" \notin DOMAIN node
                 THEN DictSet(node, "character", char_id) ELSE node
    IN IF "characters" \notin DOMAIN node1
       THEN [st2 EXCEPT !.nodes = Put(@, id, node1), !.error = "KeyError"]
       ELSE LET node2 == [node1 EXCEPT !.characters =
                              DictSet(@, char_id, NewCharacter(expression))]
                node3 == [node2 EXCEPT !.text = dialogue]
            IN [st2 EXCEPT !.nodes = Put(@, id, node3)]

\* lines 3478-3482: the index after the run of lines that start with "->"
RECURSIVE RunEnd(_, _)
RunEnd(lines, idx) ==
    IF idx < Len(lines) /\ StartsWithArrow(lines[idx + 1])
    THEN RunEnd(lines, idx + 1) ELSE idx

\* lines 3471-3512: a choice line, st0.i already past it
ChoiceLine(st0, lines, line) ==
    LET last == RunEnd(lines, st0.i)
        choices == <<line.a>> \o [k \in 1 .. (last - st0.i) |-> lines[st0.i + k].a]
        choice_id == NodeId("choice", "", st0.node_counter, -1)
        first == st0.node_counter + 1
        target(j) == NodeId("choice_target", "", first + j, j)
        targets == [j \in 1 .. Len(choices) |->
                       [id |-> target(j - 1),
                        node |-> [type |-> "dialogue", text |-> Blank]]]
        RECURSIVE PutAll(_, _)
        PutAll(d, k) == IF k > Len(targets) THEN d
                        ELSE PutAll(Put(d, targets[k].id, targets[k].node), k + 1)
        current == [type |-> "choice", text |-> Blank,
                    choices |-> [j \in 1 .. Len(choices) |->
                                    [text |-> choices[j], target |-> target(j - 1)]]]
    IN [st0 EXCEPT !.i = last,
                   !.current_node_id = choice_id,
                   !.node_counter = first + Len(choices),
                   !.nodes = Put(PutAll(@, 1), choice_id, current)]

\* one iteration of the while loop of lines 3364-3564
ParseLine(st, lines) ==
    LET line == Strip(lines[st.i + 1])
        st0 == [st EXCEPT !.i = @ + 1]
    IN IF line.kind = "blank" \/ StartsWithHash(line) THEN st0
       ELSE IF StartsWithCommand(line, "scene") THEN
         IF CommandMatch(line)
         THEN LET id == NodeId("scene", line.a, st0.node_counter, -1)
              IN [st0 EXCEPT
                    !.current_node_id = id,
                    !.node_counter = @ + 1,
                    !.nodes = Put(@, id,
                        [type |-> "dialogue", scene |-> line.a,
                         transition |-> IF line.b # "" THEN line.b ELSE "fade",
                         characters |-> EmptyDict, text |-> Blank])]
         ELSE st0
       ELSE IF StartsWithCommand(line, "character") THEN
         IF CommandMatch(line)
         THEN CharacterLine(st0, lines, line.a, "neutral")
         ELSE st0
       ELSE IF /\ ExpressionMatch(line)
               /\ ~StartsWithCommand(line, "scene")
               /\ ~StartsWithCommand(line, "bgm")
               /\ ~StartsWithCommand(line, "sound")
       THEN CharacterLine(st0, lines, line.name, line.a)
       ELSE IF StartsWithArrow(line) THEN ChoiceLine(st0, lines, line)
       ELSE IF StartsWithCommand(line, "bgm") THEN
         IF CommandMatch(line)
         THEN LET fade_in == IF line.b # "" THEN line.b ELSE "0"
                  st1 == EnsureNode(st0, "bgm", [type |-> "dialogue", text |-> Blank])
                  id == st1.current_node_id
                  node == DictSet(DictSet(Get(st1.nodes, id), "bgm", line.a),
                                  "bgm_fade_in",
                                  IF IsFloatLiteral(fade_in)
                                  THEN <<"float", fade_in>> ELSE <<"int", "0">>)
              IN [st1 EXCEPT !.nodes = Put(@, id, node)]
         ELSE st0
       ELSE IF StartsWithCommand(line, "sound") THEN
         IF CommandMatch(line)
         THEN LET volume == IF line.b # "" THEN line.b ELSE "100"
                  st1 == EnsureNode(st0, "sound", [type |-> "dialogue", text |-> Blank])
                  id == st1.current_node_id
                  node == DictSet(DictSet(Get(st1.nodes, id), "sound", line.a),
                                  "sound_volume",
                                  IF IsIntLiteral(volume)
                                  THEN <<"int", volume>> ELSE <<"int", "100">>)
              IN [st1 EXCEPT !.nodes = Put(@, id, node)]
         ELSE st0
       ELSE st0

\* the index after j, a choice node or not
NextIdxAdjacent(nodes, k) == k

\* lines 3574-3576: the first index after j whose node is not a choice node
RECURSIVE NextIdx(_, _)
NextIdx(nodes, k) ==
    IF k <= Len(nodes) /\ nodes[k].node.type = "choice"
    THEN NextIdx(nodes, k + 1) ELSE k

\* a linking pass that also links the last Dialogue node, to an id "end"
LinkNodesToEnd(nodes) ==
    [j \in 1 .. Len(nodes) |->
        LET current == nodes[j].node
            next_idx == NextIdx(nodes, j + 1)
        IN IF current.type = "dialogue" /\ "next" \notin DOMAIN current
           THEN [id |-> nodes[j].id,
                 node |-> DictSet(current, "next",
                                  IF next_idx <= Len(nodes) THEN nodes[next_idx].id
                                  ELSE NodeId("end", "", Len(nodes), -1))]
           ELSE nodes[j]]

\* lines 3566-3579: link the nodes in sequence
LinkNodes(nodes) ==
    [j \in 1 .. Len(nodes) |->
        LET current == nodes[j].node
            next_idx == NextIdx(nodes, j + 1)
        IN IF /\ j < Len(nodes)
              /\ current.type = "dialogue"
              /\ "next" \notin DOMAIN current
              /\ next_idx <= Len(nodes)
           THEN [id |-> nodes[j].id,
                 node |-> DictSet(current, "next", nodes[next_idx].id)]
           ELSE nodes[j]]

\* _parse_script_file on an empty script, as one function of the lines: the
\* loop over the lines, then the linking pass unless a line raised
RECURSIVE ParseLines(_, _)
ParseLines(st, lines) ==
    IF st.error # "none" \/ st.i >= Len(lines) THEN st
    ELSE ParseLines(ParseLine(st, lines), lines)

CompileFile(lines) ==
    LET st == ParseLines(ParseState(<< >>, 0, NoId, 0, "none"), lines)
    IN IF st.error = "none"
       THEN [error |-> "none", nodes |-> LinkNodes(st.nodes)]
       ELSE [error |-> st.error, nodes |-> st.nodes]

\* no editor tab, and no flow check asked for
\* GUIManager.__init__: the text-display state, and the loop not entered
NewGui ==
    [current_text |-> << >>, displayed_text |-> << >>, text_display_progress |-> 0,
     text_speed |-> PyInt(1), current_character |-> None, current_choices |-> << >>,
     showing_text |-> FALSE, showing_choices |-> FALSE]

IdleLoop ==
    /\ gui = NewGui
    /\ lpc = "idle"

NoResults == [shown |-> FALSE]
IdleFlow ==
    /\ editor = [open |-> FALSE, lines |-> << >>]
    /\ flow_results = NoResults
    /\ fpc = "idle"

\* an empty save directory, and nothing presented yet
IdleSession ==
    /\ save_files = EmptyDict
    /\ saved_at = EmptyDict
    /\ state = EmptyDict

\* the compiler at rest, for the play-session specification
IdleCompile ==
    /\ start_scene = MainId
    /\ script_files = << >>
    /\ file_idx = 0
    /\ compiled_script = [start |-> MainId, nodes |-> << >>]
    /\ i = 0
    /\ current_node_id = NoId
    /\ node_counter = 0
    /\ cpc = "idle"

InitEngine ==
    /\ script_content \in ScriptContents
    /\ script = NoScript
    /\ current_node = NoNode
    /\ game_vars = EmptyDict
    /\ outcome = "ok"
    /\ log = {}
    /\ last_op = "init"
    /\ last_arg = 0
    /\ IdleSession
    /\ IdleFlow
    /\ IdleCompile
    /\ IdleLoop

NextEngine ==
    \/ load_script /\ UNCHANGED <<compile_vars, session_vars, flow_vars, loop_vars>>
    \/ start /\ UNCHANGED <<compile_vars, session_vars, flow_vars, loop_vars>>
    \/ advance_dialogue /\ UNCHANGED <<compile_vars, session_vars, flow_vars, loop_vars>>
    \/ \E choice_index \in -MaxIndex .. MaxIndex :
          make_choice(choice_index) /\ UNCHANGED <<compile_vars, session_vars, flow_vars, loop_vars>>

SpecEngine == InitEngine /\ [][NextEngine]_vars

(***************************************************************************)
(* The play session with its host: save slots, the variable passthrough    *)
(* and the presentation query.                                             *)
(***************************************************************************)
\* pygame.time.get_ticks() yields a value in 0 .. MaxTicks
MaxTicks == 1

\* VNEngine saves and loads through quick_save and quick_load only
SaveSlots == {"quicksave"}

\* json.dump of a store value: None is null, a bool is true or false, an
\* int a number, a str a string
JsonDump(v) ==
    CASE v[1] = "none" -> [json |-> "null"]
      [] v[1] = "bool" -> [json |-> IF v[2] = 1 THEN "true" ELSE "false"]
      [] v[1] = "int" -> [json |-> "number", n |-> v[2]]
      [] v[1] = "str" -> [json |-> "string", n |-> v[2]]

\* json.load of a value
JsonLoad(j) ==
    CASE j.json = "null" -> None
      [] j.json = "true" -> PyTrue
      [] j.json = "false" -> <<"bool", 0>>
      [] j.json = "number" -> PyInt(j.n)
      [] j.json = "string" -> PyStr(j.n)

\* json.dump and json.load of the cursor: None or a node id
JsonDumpId(id) ==
    IF id = NoNode THEN [json |-> "null"] ELSE [json |-> "string", s |-> id]
JsonLoadId(j) ==
    IF j.json = "null" THEN NoNode ELSE j.s

\* VNEngine.set_variable(name, value), called by the host
set_variable(name, value) ==
    /\ Running
    /\ Commit([Entry EXCEPT !.game_vars = DictSet(@, name, value)],
              "set_variable", 0)
    /\ UNCHANGED <<script_content, script, session_vars>>

\* SaveLoadManager.save_game(slot_name); timestamp and date are both read
\* from the clock
save_game(slot_name) ==
    /\ Running
    /\ \E ticks \in 0 .. MaxTicks :
          LET save_data ==
                [current_node |-> JsonDumpId(current_node),
                 variables |-> [k \in DOMAIN game_vars |-> JsonDump(game_vars[k])],
                 timestamp |-> ticks,
                 date |-> ticks]
          IN save_files' = DictSet(save_files, slot_name, save_data)
    /\ saved_at' = DictSet(saved_at, slot_name,
                           [current_node |-> current_node, game_vars |-> game_vars])
    /\ Commit(Entry, "save_game", slot_name)
    /\ UNCHANGED <<script_content, script, state>>

\* load_game that merges the saved variables into the store
load_game_update(slot_name) ==
    /\ Running
    /\ IF slot_name \notin DOMAIN save_files
       THEN Commit([Entry EXCEPT !.log = {"Save slot not found"}],
                   "load_game", slot_name)
       ELSE LET save_data == save_files[slot_name]
                variables == [k \in DOMAIN save_data.variables |->
                                JsonLoad(save_data.variables[k])]
            IN Commit([Entry EXCEPT
                         !.current_node = JsonLoadId(save_data.current_node),
                         !.game_vars = set_variables(@, variables)],
                      "load_game", slot_name)
    /\ UNCHANGED <<script_content, script, session_vars>>

\* SaveLoadManager.load_game(slot_name)
load_game(slot_name) ==
    /\ Running
    /\ IF slot_name \notin DOMAIN save_files
       THEN Commit([Entry EXCEPT !.log = {"Save slot not found"}],
                   "load_game", slot_name)
       ELSE LET save_data == save_files[slot_name]
            IN Commit([Entry EXCEPT
                         !.current_node = JsonLoadId(save_data.current_node),
                         !.game_vars = [k \in DOMAIN save_data.variables |->
                                          JsonLoad(save_data.variables[k])]],
                      "load_game", slot_name)
    /\ UNCHANGED <<script_content, script, session_vars>>

\* node.get(key, default)
NodeGet(node, key, default) == IF key \in DOMAIN node THEN node[key] ELSE default

\* the float 1.0, the default text speed
DefaultSpeed == PyInt(1)

\* the dialogue entry of the returned dict
DialogueOf(text, node) ==
    [text |-> text,
     character |-> NodeGet(node, "character", None),
     speed |-> NodeGet(node, "text_speed", DefaultSpeed)]

\* the keys get_current_state copies from the node when it has them;
\* bgm_fade_in only next to bgm
CopiedKeys(node) ==
    ({"scene", "characters", "bgm", "sound"} \cap DOMAIN node)
    \cup (IF "bgm" \in DOMAIN node THEN {"bgm_fade_in"} \cap DOMAIN node ELSE {})

\* the dict built by get_current_state with the choice texts reversed
StoryStateReversed(node) ==
    LET shown == CopiedKeys(node)
        keys == shown \cup (IF node.type = "dialogue" THEN {"dialogue"}
                            ELSE IF node.type = "choice" THEN {"dialogue", "choices"}
                            ELSE {})
        n == Len(node.choices)
    IN [k \in keys |->
          IF k = "dialogue"
          THEN DialogueOf(IF node.type = "dialogue" THEN node.text
                          ELSE NodeGet(node, "text", ""), node)
          ELSE IF k = "choices"
          THEN [c \in 1 .. n |-> node.choices[n + 1 - c].text]
          ELSE node[k]]

\* the dict built by get_current_state for the node under the cursor
StoryState(node) ==
    LET shown == CopiedKeys(node)
        keys == shown \cup (IF node.type = "dialogue" THEN {"dialogue"}
                            ELSE IF node.type = "choice" THEN {"dialogue", "choices"}
                            ELSE {})
    IN [k \in keys |->
          IF k = "dialogue"
          THEN DialogueOf(IF node.type = "dialogue" THEN node.text
                          ELSE NodeGet(node, "text", ""), node)
          ELSE IF k = "choices"
          THEN [c \in 1 .. Len(node.choices) |-> node.choices[c].text]
          ELSE node[k]]

\* get_current_state that also advances the story
get_current_state_advancing ==
    /\ Running
    /\ IF current_node = NoNode
       THEN state' = EmptyDict /\ Commit(Entry, "get_current_state", 0)
       ELSE LET node == script.nodes[current_node]
            IN /\ state' = StoryState(node)
               /\ IF "next" \in DOMAIN node
                  THEN Commit(go_to_node(script.nodes, node.next, Entry, 1),
                              "get_current_state", 0)
                  ELSE Commit(Entry, "get_current_state", 0)
    /\ UNCHANGED <<script_content, script, save_files, saved_at>>

\* StoryManager.get_current_state: no script under a cursor is a TypeError
\* (None is not subscriptable), a cursor that is no key of nodes a KeyError
get_current_state ==
    /\ Running
    /\ IF current_node = NoNode
       THEN state' = EmptyDict /\ Commit(Entry, "get_current_state", 0)
       ELSE IF script = NoScript
       THEN /\ state' = state
            /\ Commit([Entry EXCEPT !.outcome = "TypeError"], "get_current_state", 0)
       ELSE IF current_node \notin DOMAIN script.nodes
       THEN /\ state' = state
            /\ Commit([Entry EXCEPT !.outcome = "KeyError"], "get_current_state", 0)
       ELSE /\ state' = StoryState(script.nodes[current_node])
            /\ Commit(Entry, "get_current_state", 0)
    /\ UNCHANGED <<script_content, script, save_files, saved_at>>

\* a node with everything the front end shows, one with music but no
\* fade-in, and one with a fade-in but no music
ShownNodes ==
    {[type |-> "dialogue", text |-> "hello", next |-> "b", character |-> PyStr(1),
      text_speed |-> PyInt(2), scene |-> "park", characters |-> <<"amy">>,
      bgm |-> "theme", bgm_fade_in |-> 1, sound |-> "bell"],
     [type |-> "dialogue", text |-> "hello", next |-> "b", bgm |-> "theme"],
     [type |-> "dialogue", text |-> "hello", next |-> "b", bgm_fade_in |-> 1],
     [type |-> "choice", text |-> "which?", character |-> PyStr(1), scene |-> "park",
      choices |-> <<[text |-> "one", set |-> [x |-> PyInt(1)], target |-> "b"],
                    [text |-> "two", target |-> "c"],
                    [text |-> "three", set |-> [y |-> PyInt(2)], target |-> "c"]>>]}

\* the stories of the hosted session
SessionScripts ==
    {[start |-> "a", nodes |-> [a |-> na, b |-> nb, c |-> nc], variables |-> v] :
        na \in ShownNodes \cup {[type |-> "choice", choices |-> << >>]},
        nb \in {[type |-> "set", variables |-> [x |-> PyInt(1)], next |-> "c"],
                [type |-> "dialogue", text |-> "hello", next |-> "c"]}
               \cup ConditionNodes({"=="}, {<<"c", "a">>}),
        nc \in DialogueNodes({"a", Missing}) \cup EndNodes,
        v \in {EmptyDict, [x |-> PyTrue]}}

\* the values the host passes to set_variable
HostValues == {PyInt(2)}

InitSession ==
    /\ script_content \in SessionScripts
    /\ script = NoScript
    /\ current_node = NoNode
    /\ game_vars = EmptyDict
    /\ outcome = "ok"
    /\ log = {}
    /\ last_op = "init"
    /\ last_arg = 0
    /\ IdleSession
    /\ IdleFlow
    /\ IdleCompile
    /\ IdleLoop

NextSession ==
    \/ load_script /\ UNCHANGED <<compile_vars, session_vars, flow_vars, loop_vars>>
    \/ start /\ UNCHANGED <<compile_vars, session_vars, flow_vars, loop_vars>>
    \/ advance_dialogue /\ UNCHANGED <<compile_vars, session_vars, flow_vars, loop_vars>>
    \/ \E choice_index \in 0 .. MaxIndex :
          make_choice(choice_index) /\ UNCHANGED <<compile_vars, session_vars, flow_vars, loop_vars>>
    \/ \E value \in HostValues : set_variable("x", value) /\ UNCHANGED <<compile_vars, flow_vars, loop_vars>>
    \/ \E slot_name \in SaveSlots : save_game(slot_name) /\ UNCHANGED <<compile_vars, flow_vars, loop_vars>>
    \/ \E slot_name \in SaveSlots : load_game(slot_name) /\ UNCHANGED <<compile_vars, flow_vars, loop_vars>>
    \/ get_current_state /\ UNCHANGED <<compile_vars, flow_vars, loop_vars>>

SpecSession == InitSession /\ [][NextSession]_vars

(***************************************************************************)
(* Bounds of the compiler model: the authoring lines, and the files made   *)
(* of them.                                                                *)
(***************************************************************************)
\* every file of at most MaxLines lines over AllLines is compiled
MaxLines == 3
\* every file of at most MaxStoryLines lines over StoryLines is compiled
MaxStoryLines == 5

L_blank == Blank                                          \* ""
L_hash == Line(FALSE, "hash", "", "Chapter", "")          \* "# Chapter"
L_scene == Line(FALSE, "at", "scene", "park", "")         \* "@scene:park"
L_scene_tr == Line(FALSE, "at", "scene", "park", "wipe")  \* "@scene:park:wipe"
L_scene_bad == Line(FALSE, "at", "scene", "", "")         \* "@scene:"
L_char == Line(FALSE, "at", "character", "amy", "")       \* "@character:amy"
L_char_bad == Line(FALSE, "at", "character", "", "")      \* "@character:"
L_expr == Line(FALSE, "at", "bob", "happy", "")           \* "@bob:happy"
L_expr_bad == Line(FALSE, "at", "amy", "", "")            \* "@amy:"
L_text == Line(FALSE, "text", "", "Hi!", "")              \* "Hi!"
L_wave == Line(FALSE, "arrow", "", "Wave", "")            \* "-> Wave"
L_leave == Line(FALSE, "arrow", "", "Leave", "")          \* "-> Leave"
L_leave_ws == Line(TRUE, "arrow", "", "Leave", "")        \* "  -> Leave"
L_bgm == Line(FALSE, "at", "bgm", "theme", "")            \* "@bgm:theme"
L_bgm_bad == Line(FALSE, "at", "bgm", "theme", "slow")    \* "@bgm:theme:slow"
L_sound == Line(FALSE, "at", "sound", "ding", "")         \* "@sound:ding"
L_sound_vol == Line(FALSE, "at", "sound", "ding", "50")   \* "@sound:ding:50"
L_atword == Line(FALSE, "atword", "foo", "", "")          \* "@foo"

AllLines ==
    {L_blank, L_hash, L_scene, L_scene_tr, L_scene_bad, L_char, L_char_bad,
     L_expr, L_expr_bad, L_text, L_wave, L_leave_ws, L_bgm, L_bgm_bad,
     L_sound, L_sound_vol, L_atword}

StoryLines == {L_scene, L_char, L_text, L_wave, L_leave}

SeqsUpTo(S, n) == UNION {[1 .. k -> S] : k \in 0 .. n}

Files == SeqsUpTo(AllLines, MaxLines) \cup SeqsUpTo(StoryLines, MaxStoryLines)

\* the projects compiled: no file, one file, or a short file after another
Projects ==
    {<< >>} \cup {<<f>> : f \in Files}
    \cup {<<f, g>> : f \in SeqsUpTo(StoryLines, 2), g \in SeqsUpTo(StoryLines, 2)}

\* the "start_scene" setting is the default, "main", or what the author
\* typed into the settings dialog: here the id of a node of the project
TypedStartScene == NodeId("scene", "park", 0, -1)
TypedProjects == {<<f>> : f \in SeqsUpTo(StoryLines, 2)}

(***************************************************************************)
(* The compiler's steps.                                                   *)
(***************************************************************************)
\* entry into a file with the id counter back at 0
EnterFileFromZero(nodes) ==
    /\ i' = 0
    /\ current_node_id' = NoId
    /\ node_counter' = 0

\* the state _parse_script_file starts from on entry (lines 3359-3363)
EnterFile(nodes) ==
    /\ i' = 0
    /\ current_node_id' = NoId
    /\ node_counter' = Len(nodes)

\* _compile_script up to the first _parse_script_file call
compile_script ==
    /\ cpc = "ready"
    /\ IF script_files = << >>
       THEN /\ cpc' = "no_files"
            /\ UNCHANGED <<compiled_script, file_idx, i, current_node_id, node_counter>>
       ELSE /\ compiled_script' = [start |-> start_scene, nodes |-> << >>]
            /\ file_idx' = 1
            /\ EnterFile(<< >>)
            /\ cpc' = "parse"
    /\ UNCHANGED <<start_scene, script_files>>

\* _parse_script_file: one iteration of the loop over the lines
parse_script_line ==
    /\ cpc = "parse"
    /\ i < Len(script_files[file_idx])
    /\ LET st == ParseLine(ParseState(compiled_script.nodes, i, current_node_id,
                                      node_counter, "none"),
                           script_files[file_idx])
       IN /\ compiled_script' = [compiled_script EXCEPT !.nodes = st.nodes]
          /\ i' = st.i
          /\ current_node_id' = st.current_node_id
          /\ node_counter' = st.node_counter
          /\ cpc' = IF st.error = "none" THEN "parse" ELSE st.error
    /\ UNCHANGED <<start_scene, script_files, file_idx>>

\* _parse_script_file: the linking pass and the return; _compile_script
\* then goes on to the next file or writes the script
link_nodes ==
    /\ cpc = "parse"
    /\ i >= Len(script_files[file_idx])
    /\ LET nodes == LinkNodes(compiled_script.nodes)
       IN /\ compiled_script' = [compiled_script EXCEPT !.nodes = nodes]
          /\ IF file_idx < Len(script_files)
             THEN /\ file_idx' = file_idx + 1
                  /\ EnterFile(nodes)
                  /\ cpc' = "parse"
             ELSE /\ cpc' = "done"
                  /\ UNCHANGED <<file_idx, i, current_node_id, node_counter>>
    /\ UNCHANGED <<start_scene, script_files>>

\* the play session at rest, for the compiler specification
IdleEngine ==
    /\ script_content = [start |-> "a"]
    /\ script = NoScript
    /\ current_node = NoNode
    /\ game_vars = EmptyDict
    /\ outcome = "ok"
    /\ log = {}
    /\ last_op = "init"
    /\ last_arg = 0
    /\ IdleSession
    /\ IdleLoop

InitCompile ==
    /\ \/ start_scene = MainId /\ script_files \in Projects
       \/ start_scene = TypedStartScene /\ script_files \in TypedProjects
    /\ file_idx = 0
    /\ compiled_script = [start |-> MainId, nodes |-> << >>]
    /\ i = 0
    /\ current_node_id = NoId
    /\ node_counter = 0
    /\ cpc = "ready"
    /\ IdleEngine
    /\ IdleFlow

NextCompile ==
    \/ compile_script /\ UNCHANGED <<engine_vars, session_vars, flow_vars, loop_vars>>
    \/ parse_script_line /\ UNCHANGED <<engine_vars, session_vars, flow_vars, loop_vars>>
    \/ link_nodes /\ UNCHANGED <<engine_vars, session_vars, flow_vars, loop_vars>>

SpecCompile == InitCompile /\ [][NextCompile]_vars

(***************************************************************************)
(* The flow check of the editor (VNEditor._check_script_flow).             *)
(*                                                                         *)
(* Three of its searches run regular expressions over the whole text of    *)
(* the editor, not line by line.  The text is a sequence of tokens: "@",   *)
(* ":", "NL" (a newline), " " (white space), "#", "->", and words, which   *)
(* are non-empty and hold none of "@", ":", a newline or a space.          *)
(***************************************************************************)
\* the characters of one authoring line
Render(l) ==
    LET word(w) == IF w = "" THEN << >> ELSE <<w>>
        body == CASE l.kind = "blank" -> << >>
                  [] l.kind = "hash" -> <<"#", " ">> \o word(l.a)
                  [] l.kind = "at" ->
                       <<"@">> \o word(l.name) \o <<":">> \o word(l.a)
                       \o (IF l.b = "" THEN << >> ELSE <<":", l.b>>)
                  [] l.kind = "atword" -> <<"@">> \o word(l.name)
                  [] l.kind = "arrow" ->
                       <<"->">> \o (IF l.a = "" THEN << >> ELSE <<" ", l.a>>)
                  [] l.kind = "text" -> word(l.a)
    IN (IF l.ws THEN <<" ">> ELSE << >>) \o body

\* editor.get("1.0", tk.END): the lines, each followed by a newline
RECURSIVE TextOf(_)
TextOf(lines) ==
    IF lines = << >> THEN << >>
    ELSE Render(Head(lines)) \o <<"NL">> \o TextOf(Tail(lines))

EditorText(lines) == IF lines = << >> THEN <<"NL">> ELSE TextOf(lines)

\* str.strip() of a piece of the text
RECURSIVE StripText(_)
StripText(t) ==
    IF t = << >> THEN t
    ELSE IF Head(t) \in {" ", "NL"} THEN StripText(Tail(t))
    ELSE IF t[Len(t)] \in {" ", "NL"} THEN StripText(SubSeq(t, 1, Len(t) - 1))
    ELSE t

\* [^:]+ from position p: the last position of the run of characters other
\* than ":" that starts at p (p - 1 when there is none)
RECURSIVE NonColonEnd(_, _)
NonColonEnd(t, p) ==
    IF p <= Len(t) /\ t[p] # ":" THEN NonColonEnd(t, p + 1) ELSE p - 1

\* .+ from position p: the last position before the next newline
RECURSIVE LineEnd(_, _)
LineEnd(t, p) ==
    IF p <= Len(t) /\ t[p] # "NL" THEN LineEnd(t, p + 1) ELSE p - 1

\* the literal "@<name>:" at position p
Literal(t, p, name) ==
    p + 2 <= Len(t) /\ t[p] = "@" /\ t[p + 1] = name /\ t[p + 2] = ":"

\* re.finditer(r"@scene:([^:]+)(?::(.+))?", text): the stripped first
\* groups, in order; the search goes on after the end of each match
RECURSIVE SceneMatches(_, _)
SceneMatches(t, p) ==
    IF p > Len(t) THEN << >>
    ELSE LET e == NonColonEnd(t, p + 3)
             tail == IF e + 1 <= Len(t) /\ t[e + 1] = ":" /\ LineEnd(t, e + 2) >= e + 2
                     THEN LineEnd(t, e + 2) ELSE e
         IN IF Literal(t, p, "scene") /\ e >= p + 3
            THEN <<StripText(SubSeq(t, p + 3, e))>> \o SceneMatches(t, tail + 1)
            ELSE SceneMatches(t, p + 1)

\* re.finditer(r"@character:([^:]+)", text): the set of stripped groups
RECURSIVE CharMatches(_, _)
CharMatches(t, p) ==
    IF p > Len(t) THEN {}
    ELSE LET e == NonColonEnd(t, p + 3)
         IN IF Literal(t, p, "character") /\ e >= p + 3
            THEN {StripText(SubSeq(t, p + 3, e))} \cup CharMatches(t, e + 1)
            ELSE CharMatches(t, p + 1)

\* re.finditer(r"@([^:]+):([^:]+)", text): the set of stripped first groups
RECURSIVE CharExprMatches(_, _)
CharExprMatches(t, p) ==
    IF p > Len(t) THEN {}
    ELSE LET q == NonColonEnd(t, p + 1) + 1
             e == NonColonEnd(t, q + 1)
         IN IF t[p] = "@" /\ q > p + 1 /\ q <= Len(t) /\ e >= q + 1
            THEN {StripText(SubSeq(t, p + 1, q - 1))} \cup CharExprMatches(t, e + 1)
            ELSE CharExprMatches(t, p + 1)

\* the names that are commands, as pieces of text
CommandNames == {<<"scene">>, <<"character">>, <<"bgm">>, <<"sound">>}

\* lines 2907-2921: the sizes of the groups of consecutive lines that start
\* with "->"; split("\n") leaves the lines unstripped
RECURSIVE ChoiceGroups(_, _, _)
ChoiceGroups(lines, k, choice_count) ==
    IF k > Len(lines) THEN << >>
    ELSE IF ~StartsWithArrow(lines[k]) THEN ChoiceGroups(lines, k + 1, choice_count)
    ELSE IF k + 1 <= Len(lines) /\ StartsWithArrow(lines[k + 1])
    THEN ChoiceGroups(lines, k + 1, choice_count + 1)
    ELSE <<choice_count + 1>> \o ChoiceGroups(lines, k + 1, 0)

\* lines 2946-2969: the count of dialogue lines outside a dialogue
RECURSIVE OrphanedDialogue(_, _, _)
OrphanedDialogue(lines, k, in_dialogue) ==
    IF k > Len(lines) THEN 0
    ELSE LET line == Strip(lines[k])
         IN IF line.kind = "blank" \/ StartsWithHash(line)
            THEN OrphanedDialogue(lines, k + 1, in_dialogue)
            ELSE IF \/ StartsWithCommand(line, "character")
                    \/ /\ ExpressionMatch(line)
                       /\ line.name \notin {"scene", "bgm", "sound"}
            THEN OrphanedDialogue(lines, k + 1, TRUE)
            ELSE IF line.kind \in {"at", "atword", "arrow"}
            THEN OrphanedDialogue(lines, k + 1, FALSE)
            ELSE (IF in_dialogue THEN 0 ELSE 1)
                 + OrphanedDialogue(lines, k + 1, in_dialogue)

\* what the dialog of the flow check reports
FlowResults(lines) ==
    LET text == EditorText(lines)
        characters == CharMatches(text, 1)
    IN [shown |-> TRUE,
        scenes |-> SceneMatches(text, 1),
        characters |-> characters,
        choices |-> ChoiceGroups(lines, 1, 0),
        undefined_chars |-> {char_id \in CharExprMatches(text, 1) :
                                char_id \notin CommandNames /\ char_id \notin characters},
        orphaned_dialogue |-> OrphanedDialogue(lines, 1, FALSE)]

\* VNEditor._check_script_flow: without an editor tab a message box and
\* nothing else
check_script_flow ==
    /\ fpc = "ready"
    /\ IF ~editor.open
       THEN /\ fpc' = "no_editor"
            /\ UNCHANGED flow_results
       ELSE /\ fpc' = "shown"
            /\ flow_results' = FlowResults(editor.lines)
    /\ UNCHANGED editor

\* every text of at most MaxFlowLines lines over FlowLines is checked
MaxFlowLines == 4

L_amy == Line(FALSE, "at", "amy", "happy", "")            \* "@amy:happy"
L_char_bob == Line(FALSE, "at", "character", "bob", "")   \* "@character:bob"

FlowLines == {L_blank, L_scene, L_char, L_char_bob, L_amy, L_expr, L_text, L_wave,
              L_leave_ws, L_bgm}

InitFlow ==
    /\ \/ editor = [open |-> FALSE, lines |-> << >>]
       \/ \E lines \in SeqsUpTo(FlowLines, MaxFlowLines) :
             editor = [open |-> TRUE, lines |-> lines]
    /\ flow_results = NoResults
    /\ fpc = "ready"
    /\ IdleEngine
    /\ IdleCompile

NextFlow ==
    check_script_flow /\ UNCHANGED <<engine_vars, compile_vars, session_vars, loop_vars>>

SpecFlow == InitFlow /\ [][NextFlow]_vars

(***************************************************************************)
(* The game loop (VNEngine.run) and the typewriter of GUIManager.  A text  *)
(* is shown as the sequence of its characters; each frame handles the      *)
(* pending events, then runs VNEngine.update, then VNEngine.render.        *)
(***************************************************************************)
\* list(text)
Chars(text) ==
    CASE text = "hello" -> <<"h", "e", "l", "l", "o">>
      [] text = "which?" -> <<"w", "h", "i", "c", "h", "?">>
      [] text = "hi" -> <<"h", "i">>
      [] text = "" -> << >>

\* GUIManager.show_dialogue
show_dialogue(g, text, character, speed) ==
    [g EXCEPT !.current_text = Chars(text),
              !.displayed_text = << >>,
              !.text_display_progress = 0,
              !.text_speed = speed,
              !.current_character = character,
              !.showing_text = TRUE,
              !.showing_choices = FALSE]

\* GUIManager.show_choices
show_choices(g, choices) ==
    [g EXCEPT !.current_choices = choices, !.showing_choices = TRUE]

\* GUIManager.update: the typewriter (no notification is ever posted here)
gui_update(g) ==
    IF g.showing_text /\ g.displayed_text # g.current_text
    THEN LET progress == g.text_display_progress + g.text_speed[2]
             display_length == IF Len(g.current_text) < progress
                               THEN Len(g.current_text) ELSE progress
         IN [g EXCEPT !.text_display_progress = progress,
                      !.displayed_text = SubSeq(g.current_text, 1, display_length)]
    ELSE g

\* the last part of VNEngine.update: hand the dialogue and the choices of
\* the returned state to the GUI
Present(st, g) ==
    LET g1 == IF "dialogue" \in DOMAIN st
              THEN show_dialogue(g, st.dialogue.text, st.dialogue.character,
                                 st.dialogue.speed)
              ELSE g
    IN IF "choices" \in DOMAIN st THEN show_choices(g1, st.choices) ELSE g1

\* an uncaught exception leaves the while loop of VNEngine.run
Continue(pc) == IF outcome' = "ok" THEN pc ELSE "stopped"

\* VNEngine.run is entered
run ==
    /\ Running
    /\ lpc = "idle"
    /\ lpc' = "events"
    /\ UNCHANGED <<engine_vars, compile_vars, session_vars, flow_vars, gui>>

\* a KEYDOWN of SPACE or RETURN: GUIManager.handle_event leaves it, and
\* VNEngine.handle_event advances the story
key_space ==
    /\ lpc = "events"
    /\ advance_dialogue
    /\ lpc' = Continue("events")
    /\ UNCHANGED <<compile_vars, session_vars, flow_vars, gui>>

\* a MOUSEBUTTONDOWN; hit is the index of the choice rectangle under the
\* pointer, -1 when there is none
mouse_click(hit) ==
    /\ lpc = "events"
    /\ Running
    /\ IF gui.showing_choices /\ 0 <= hit /\ hit < Len(gui.current_choices)
       THEN /\ make_choice(hit)
            /\ gui' = IF outcome' = "ok"
                      THEN [gui EXCEPT !.showing_choices = FALSE] ELSE gui
            /\ lpc' = Continue("events")
       ELSE /\ gui' = IF /\ gui.showing_text
                         /\ ~gui.showing_choices
                         /\ gui.displayed_text # gui.current_text
                      THEN [gui EXCEPT !.displayed_text = gui.current_text,
                                       !.text_display_progress = Len(gui.current_text)]
                      ELSE gui
            /\ UNCHANGED <<engine_vars, lpc>>
    /\ UNCHANGED <<compile_vars, session_vars, flow_vars>>

\* pygame.QUIT: self.running = False
quit_event ==
    /\ lpc = "events"
    /\ Running
    /\ lpc' = "stopped"
    /\ UNCHANGED <<engine_vars, compile_vars, session_vars, flow_vars, gui>>

\* pygame.event.get() is exhausted
end_events ==
    /\ lpc = "events"
    /\ Running
    /\ lpc' = "update"
    /\ UNCHANGED <<engine_vars, compile_vars, session_vars, flow_vars, gui>>

\* VNEngine.update
update ==
    /\ lpc = "update"
    /\ get_current_state
    /\ gui' = IF outcome' = "ok" THEN Present(state', gui) ELSE gui
    /\ lpc' = Continue("render")
    /\ UNCHANGED <<compile_vars, flow_vars>>

\* VNEngine.render: GUIManager.render starts with GUIManager.update
render ==
    /\ lpc = "render"
    /\ Running
    /\ gui' = gui_update(gui)
    /\ lpc' = "events"
    /\ UNCHANGED <<engine_vars, compile_vars, session_vars, flow_vars>>

\* the stories played in the loop: texts of five, two and no characters,
\* at the default speed and at two characters a frame
LoopScripts ==
    {[start |-> "a", nodes |-> [a |-> na, b |-> nb, c |-> nc]] :
        na \in {[type |-> "dialogue", text |-> "hello", next |-> "b"],
                [type |-> "dialogue", text |-> "hello", text_speed |-> PyInt(2),
                 next |-> "b"],
                [type |-> "dialogue", text |-> "hi", text_speed |-> PyInt(2),
                 next |-> "b"],
                [type |-> "choice", text |-> "which?",
                 choices |-> <<[text |-> "one", target |-> "b"],
                               [text |-> "two", target |-> "c"]>>]},
        nb \in {[type |-> "dialogue", text |-> "hi", next |-> "c"],
                [type |-> "set", variables |-> [x |-> PyInt(1)], next |-> "c"]},
        nc \in {[type |-> "dialogue", text |-> ""],
                [type |-> "dialogue", text |-> "hello", next |-> "a"],
                [type |-> "end"]}}

InitLoop ==
    /\ script_content \in LoopScripts
    /\ script = NoScript
    /\ current_node = NoNode
    /\ game_vars = EmptyDict
    /\ outcome = "ok"
    /\ log = {}
    /\ last_op = "init"
    /\ last_arg = 0
    /\ IdleSession
    /\ IdleFlow
    /\ IdleCompile
    /\ IdleLoop

\* VNEngine.load_game(script_path) before the loop, then the loop
NextLoop ==
    \/ lpc = "idle" /\ load_script
       /\ UNCHANGED <<compile_vars, session_vars, flow_vars, loop_vars>>
    \/ lpc = "idle" /\ start
       /\ UNCHANGED <<compile_vars, session_vars, flow_vars, loop_vars>>
    \/ run
    \/ key_space
    \/ \E hit \in -1 .. MaxIndex : mouse_click(hit)
    \/ quit_event
    \/ end_events
    \/ update
    \/ render

\* the for loop over the pending events ends, and each frame runs update
\* and then render
SpecLoop ==
    /\ InitLoop
    /\ [][NextLoop]_vars
    /\ WF_vars(end_events)
    /\ WF_vars(update)
    /\ WF_vars(render)

\* json.dump then json.loads of the compiled script, as the loader sees it
Decoded(cs) ==
    [start |-> cs.start,
     nodes |-> [id \in Keys(cs.nodes) |-> Get(cs.nodes, id)]]

(***************************************************************************)
(* Properties.                                                             *)
(***************************************************************************)
\* the ids a node refers to
References(node) ==
    (IF "next" \in DOMAIN node THEN {node.next} ELSE {})
    \cup (IF node.type = "condition" THEN {node.true, node.false} ELSE {})
    \cup (IF node.type = "choice"
          THEN {node.choices[k].target : k \in DOMAIN node.choices} ELSE {})

\* every id the graph refers to is a key of the graph
AllReferencesExist(nodes) ==
    \A id \in DOMAIN nodes : References(nodes[id]) \subseteq DOMAIN nodes

\* the invariant set of the data model
InvariantSet(nodes) ==
    /\ AllReferencesExist(nodes)
    /\ \A id \in DOMAIN nodes :
          /\ nodes[id].type = "choice" => nodes[id].choices # << >>
          /\ nodes[id].type = "condition" =>
                nodes[id].condition.operator \in Operators

Loaded == script # NoScript
OnNode == Loaded /\ current_node # NoNode
CurrentNode == script.nodes[current_node]

\* where auto-resolution entered at node id ends, from the present store
Resolution(id) == go_to_node(script.nodes, id, Entry, 1)

\* C1: every script the compiler writes has its start id among its nodes,
\* so that ScriptParser.parse accepts it.
C1_CompiledStartIsNode ==
    cpc = "done" => parse(Decoded(compiled_script))

\* C2: a start, advance or selectChoice call whose traversal runs into a
\* cycle of Condition/SetVariables nodes ends with an error outcome: no call
\* returns normally with the cursor left inside such a cycle.
C2_CycleEndsInError ==
    (OnNode /\ last_op \in {"start", "advance_dialogue", "make_choice"}
       /\ Resolution(current_node).outcome = "RecursionError")
    => outcome # "ok"

\* C3: selectChoice with the cursor on a Choice node and an index outside
\* 0 .. number of options - 1 changes neither cursor nor store and returns
\* normally.
C3_OutOfRangeChoiceIsNoOp ==
    [][(/\ OnNode
        /\ CurrentNode.type = "choice"
        /\ last_op' = "make_choice"
        /\ ~(0 <= last_arg' /\ last_arg' < Len(CurrentNode.choices)))
       => (/\ current_node' = current_node
           /\ game_vars' = game_vars
           /\ outcome' = "ok")]_vars

\* C4: on a graph whose references all exist, after advance or selectChoice
\* returns the cursor is on a Dialogue, Choice or End node.
C4_CursorRestsOnVisibleNode ==
    (OnNode /\ AllReferencesExist(script.nodes) /\ outcome = "ok"
       /\ last_op \in {"advance_dialogue", "make_choice"})
    => CurrentNode.type \in {"dialogue", "choice", "end"}

\* C5: when the start node is a Condition or SetVariables node, start leaves
\* the cursor on the node its auto-resolution against the seeded store
\* reaches.
C5_StartAutoResolves ==
    (Loaded /\ last_op = "start" /\ outcome = "ok"
       /\ script.nodes[script.start].type \in {"condition", "set"}
       /\ Resolution(script.start).outcome = "ok")
    => current_node = Resolution(script.start).current_node

\* C6: the compiler returns normally on every sequence of authoring lines.
C6_CompilerNeverRaises ==
    cpc \in {"ready", "no_files", "parse", "done"}

\* the choice nodes of a compiled graph that come right after a spoken
\* dialogue: a choice node's targets are created between the two
SpokenBeforeChoice(nodes) ==
    {p \in DOMAIN nodes :
        /\ nodes[p].node.type = "choice"
        /\ LET d == p - Len(nodes[p].node.choices) - 1
           IN /\ d >= 1
              /\ nodes[d].node.type = "dialogue"
              /\ "scene" \in DOMAIN nodes[d].node
              /\ "character" \in DOMAIN nodes[d].node
              /\ nodes[d].node.text # Blank}

\* C7: the dialogue node that precedes a run of choice lines is linked by
\* next to the run's Choice node.
C7_DialogueLinksToChoice ==
    (cpc = "done" /\ Len(script_files) = 1)
    => \A p \in SpokenBeforeChoice(compiled_script.nodes) :
          LET nodes == compiled_script.nodes
              d == nodes[p - Len(nodes[p].node.choices) - 1].node
          IN "next" \in DOMAIN d /\ d.next = nodes[p].id

\* C8: a graph the loader accepts satisfies the invariant set: its
\* references exist, its Choice nodes have options, its operators are known.
C8_AcceptedGraphIsSound ==
    Loaded => InvariantSet(script.nodes)

\* C9: following a link to an id that is no key of nodes ends the call in an
\* error, not in a normal return.
C9_DanglingLinkIsFatal ==
    "Node not found" \in log => outcome # "ok"

\* C10: advancing into a Condition node whose variable is absent from the
\* store takes the false branch for ==, >, <, >=, <= and the true branch for
\* !=, and raises nothing.
C10_AbsentVariableCompares ==
    [][(/\ OnNode
        /\ last_op' = "advance_dialogue"
        /\ "next" \in DOMAIN CurrentNode
        /\ CurrentNode.next \in DOMAIN script.nodes
        /\ LET c == script.nodes[CurrentNode.next]
           IN /\ c.type = "condition"
              /\ c.condition.operator \in Operators
              /\ c.condition.variable \notin DOMAIN game_vars)
       => LET c == script.nodes[CurrentNode.next]
              branch == IF c.condition.operator = "!=" THEN c.true ELSE c.false
          IN /\ outcome' # "TypeError"
             /\ current_node' = Resolution(branch).current_node]_vars

\* C11 as claimed: advance on a Choice node, whatever keys it carries,
\* changes neither the cursor nor the store.
C11_AdvanceOnAnyChoiceIsNoOp ==
    [][(/\ OnNode
        /\ CurrentNode.type = "choice"
        /\ last_op' = "advance_dialogue")
       => (current_node' = current_node /\ game_vars' = game_vars)]_vars

\* C11: advance on a Choice node that has no "next" key changes neither
\* the cursor nor the store.
C11_AdvanceOnChoiceIsNoOp ==
    [][(/\ OnNode
        /\ CurrentNode.type = "choice"
        /\ "next" \notin DOMAIN CurrentNode
        /\ last_op' = "advance_dialogue")
       => (current_node' = current_node /\ game_vars' = game_vars)]_vars

\* advance has returned with the cursor on a Choice node without "next"
C11_Witness ==
    /\ OnNode
    /\ last_op = "advance_dialogue"
    /\ outcome = "ok"
    /\ CurrentNode.type = "choice"
    /\ "next" \notin DOMAIN CurrentNode
    /\ CurrentNode.choices # << >>

\* the store after the assignments of one option and no other
StoreAfter(gv, choice) ==
    IF "set" \notin DOMAIN choice THEN gv
    ELSE [k \in DOMAIN gv \cup DOMAIN choice.set |->
             IF k \in DOMAIN choice.set THEN choice.set[k] ELSE gv[k]]

\* C12: selectChoice(i) with a valid i applies option i's assignments, and
\* only those, and then leaves the cursor where auto-resolution from that
\* option's target ends (on the target itself when it is a Dialogue, Choice
\* or End node).
C12_ChoiceAppliesThenMoves ==
    [][(/\ OnNode
        /\ CurrentNode.type = "choice"
        /\ last_op' = "make_choice"
        /\ 0 <= last_arg' /\ last_arg' < Len(CurrentNode.choices))
       => LET choice == CurrentNode.choices[last_arg' + 1]
              applied == [Entry EXCEPT !.game_vars = StoreAfter(game_vars, choice)]
              r == go_to_node(script.nodes, choice.target, applied, 1)
          IN /\ current_node' = r.current_node
             /\ game_vars' = r.game_vars
             /\ (choice.target \in DOMAIN script.nodes
                   /\ script.nodes[choice.target].type \in {"dialogue", "choice", "end"})
                => (current_node' = choice.target
                      /\ game_vars' = StoreAfter(game_vars, choice))]_vars

\* a choice with assignments has been made, auto-resolution ran through the
\* target and the cursor rests beyond it
C12_Witness ==
    /\ OnNode
    /\ last_op = "make_choice"
    /\ last_arg = 0
    /\ outcome = "ok"
    /\ log = {}
    /\ "x" \in DOMAIN game_vars
    /\ script.nodes["a"].type = "choice"
    /\ script.nodes["b"].type = "condition"
    /\ current_node = "c"

\* C13: load_game(slot) puts the cursor and the store back to exactly what
\* they were when save_game(slot) last ran, whatever advance, make_choice
\* and set_variable did in between.
C13_LoadRestoresSaved ==
    [][(/\ last_op' = "load_game"
        /\ last_arg' \in DOMAIN saved_at)
       => (/\ current_node' = saved_at[last_arg'].current_node
           /\ game_vars' = saved_at[last_arg'].game_vars)]_vars

\* a load has brought back a cursor and a store saved after the story
\* moved on from its start and the host set a variable
C13_Witness ==
    /\ last_op = "load_game"
    /\ last_arg \in DOMAIN saved_at
    /\ log = {}
    /\ Loaded
    /\ current_node = "c"
    /\ game_vars = [x |-> PyInt(2)]
    /\ save_files[last_arg].variables = [x |-> [json |-> "number", n |-> 2]]

\* C16: get_current_state changes nothing of the session (cursor, store,
\* script, save files), and a second call straight after the first returns
\* the same dict.
C16_StateQueryIsPure ==
    [][(last_op' = "get_current_state")
       => (/\ UNCHANGED <<current_node, game_vars, script, save_files>>
           /\ (last_op = "get_current_state" => state' = state))]_vars

\* the state of a node that has a successor has been returned
C16_Witness ==
    /\ last_op = "get_current_state"
    /\ outcome = "ok"
    /\ OnNode
    /\ "next" \in DOMAIN CurrentNode
    /\ "scene" \in DOMAIN state
    /\ "bgm_fade_in" \in DOMAIN state

\* C17: on a Choice node the returned choices list has one entry per
\* option, and entry k is the text of option k.
C17_ChoicesMirrorOptions ==
    (/\ last_op = "get_current_state"
     /\ outcome = "ok"
     /\ OnNode
     /\ CurrentNode.type = "choice")
    => (/\ "choices" \in DOMAIN state
        /\ DOMAIN state.choices = DOMAIN CurrentNode.choices
        /\ \A k \in DOMAIN CurrentNode.choices :
              state.choices[k] = CurrentNode.choices[k].text)

\* the state of a Choice node with three options has been returned
C17_Witness ==
    /\ last_op = "get_current_state"
    /\ outcome = "ok"
    /\ OnNode
    /\ CurrentNode.type = "choice"
    /\ Len(CurrentNode.choices) = 3
    /\ state.choices = <<"one", "two", "three">>

\* C14: advance on an End node, or on a node other than a Choice that has
\* no "next", takes the engine into another state that the host can tell
\* from Playing: something of the cursor, the store or the script changes.
C14_AdvanceAtEndEntersEnded ==
    [][(/\ OnNode
        /\ CurrentNode.type # "choice"
        /\ "next" \notin DOMAIN CurrentNode
        /\ last_op' = "advance_dialogue")
       => <<current_node, game_vars, script>>' # <<current_node, game_vars, script>>]_vars

\* C15: start() on a session that is already playing neither moves the
\* cursor nor overwrites an entry of the store.
C15_StartWhilePlayingKeepsState ==
    [][(OnNode /\ last_op' = "start")
       => (/\ current_node' = current_node
           /\ \A k \in DOMAIN game_vars :
                 k \in DOMAIN game_vars' /\ game_vars'[k] = game_vars[k])]_vars

\* C19: applying the assignments of a SetVariables node of the loaded
\* story to the store twice gives the store that applying them once gives.
C19_SetVariablesIdempotent ==
    Loaded =>
      \A id \in DOMAIN script.nodes :
         script.nodes[id].type = "set" =>
            LET once == set_variables(game_vars, script.nodes[id].variables)
            IN set_variables(once, script.nodes[id].variables) = once

\* traversal has applied a SetVariables node with two assignments over a
\* store that held another value for one of them
C19_Witness ==
    /\ Loaded
    /\ OnNode
    /\ last_op = "advance_dialogue"
    /\ outcome = "ok"
    /\ "variables" \in DOMAIN script
    /\ DOMAIN script.variables = {"x"}
    /\ DOMAIN game_vars = {"x", "y"}
    /\ \E id \in DOMAIN script.nodes :
          /\ script.nodes[id].type = "set"
          /\ DOMAIN script.nodes[id].variables = {"x", "y"}
          /\ \A k \in {"x", "y"} : game_vars[k] = script.nodes[id].variables[k]

\* a line that, stripped, starts with "->"
ArrowLine(l) == StartsWithArrow(Strip(l))

\* a line after which the compiler takes the next line as dialogue text
TakesNextLine(l) ==
    ExpressionMatch(Strip(l)) /\ l.name \notin {"scene", "bgm", "sound"}

\* the option texts of the maximal runs of consecutive "->" lines, in order
RECURSIVE ArrowRuns(_, _, _)
ArrowRuns(lines, k, arrows) ==
    LET closed == IF arrows = << >> THEN << >> ELSE <<arrows>>
    IN IF k > Len(lines) THEN closed
       ELSE IF ArrowLine(lines[k])
       THEN ArrowRuns(lines, k + 1, Append(arrows, lines[k].a))
       ELSE closed \o ArrowRuns(lines, k + 1, << >>)

\* the Choice nodes of a node map, in order of creation
ChoiceNodesOf(nodes) ==
    LET IsChoice(e) == e.node.type = "choice"
    IN SelectSeq(nodes, IsChoice)

\* C20: in a file where no line is taken as a character's dialogue text,
\* the Choice nodes are, in order, the maximal runs of consecutive "->"
\* lines: one node per run, one option per line with the line's remainder
\* as text, every option targeting a Dialogue node of its own with empty
\* text.
C20_RunCompilesToOneChoice ==
    (/\ cpc = "done"
     /\ Len(script_files) = 1
     /\ \A k \in DOMAIN script_files[1] : ~TakesNextLine(script_files[1][k]))
    => LET nodes == compiled_script.nodes
           cs == ChoiceNodesOf(nodes)
           runs == ArrowRuns(script_files[1], 1, << >>)
           options == {<<r, j>> : r \in DOMAIN cs, j \in 1 .. MaxLines + MaxStoryLines}
           real == {o \in options : o[2] <= Len(cs[o[1]].node.choices)}
           target(o) == cs[o[1]].node.choices[o[2]].target
       IN /\ Len(cs) = Len(runs)
          /\ \A r \in DOMAIN cs :
                /\ Len(cs[r].node.choices) = Len(runs[r])
                /\ \A j \in 1 .. Len(runs[r]) :
                      cs[r].node.choices[j].text = runs[r][j]
          /\ \A o \in real :
                /\ target(o) \in Keys(nodes)
                /\ Get(nodes, target(o)).type = "dialogue"
                /\ Get(nodes, target(o)).text = Blank
                /\ \A q \in real : target(q) = target(o) => q = o

\* the compiler is about to run the linking pass of the current file
AtLinkingPass == cpc = "parse" /\ i >= Len(script_files[file_idx])

\* a record without its "next" key
WithoutNext(node) == [k \in DOMAIN node \ {"next"} |-> node[k]]

\* C21: the linking pass gives every Dialogue node that had no "next" the
\* id of the first later node that is not a Choice node, when there is
\* one, and changes nothing else: the remaining nodes, the choice targets
\* among them, stay as they were, and the last node has no "next".
C21_LinkingPass ==
    [][AtLinkingPass =>
         LET before == compiled_script.nodes
             after == compiled_script'.nodes
             later(j) == {k \in (j + 1) .. Len(before) : before[k].node.type # "choice"}
             first(j) == CHOOSE k \in later(j) : \A q \in later(j) : k <= q
         IN /\ Len(after) = Len(before)
            /\ \A j \in DOMAIN before :
                  LET n == before[j].node
                      m == after[j].node
                  IN /\ after[j].id = before[j].id
                     /\ IF n.type = "dialogue" /\ "next" \notin DOMAIN n /\ later(j) # {}
                        THEN /\ "next" \in DOMAIN m
                             /\ m.next = before[first(j)].id
                             /\ WithoutNext(m) = n
                        ELSE m = n
            /\ before # << >> => "next" \notin DOMAIN after[Len(after)].node]_vars

\* the pass has linked a Dialogue node over the Choice node that follows it
C21_Witness ==
    /\ cpc = "done"
    /\ \E j \in DOMAIN compiled_script.nodes :
          LET nodes == compiled_script.nodes
          IN /\ j + 2 <= Len(nodes)
             /\ nodes[j].node.type = "dialogue"
             /\ nodes[j + 1].node.type = "choice"
             /\ "next" \in DOMAIN nodes[j].node
             /\ nodes[j].node.next = nodes[j + 2].id

\* a blank line or a "#" line
MarkerLine(l) == Strip(l).kind = "blank" \/ StartsWithHash(Strip(l))

\* the file without its blank and "#" lines
WithoutMarkers(lines) ==
    LET Kept(l) == ~MarkerLine(l)
    IN SelectSeq(lines, Kept)

\* C22: a file compiles to the graph that the same file without its blank
\* and "#" lines compiles to.
C22_MarkersHaveNoEffect ==
    (cpc = "done" /\ Len(script_files) = 1)
    => CompileFile(WithoutMarkers(script_files[1]))
         = [error |-> "none", nodes |-> compiled_script.nodes]

\* a line that no branch of the compiler recognises: stray text, or an "@"
\* line that is neither a command nor an expression
StrayLine(l) == Strip(l).kind \in {"text", "atword"}

\* C23: in a file where no line is taken as a character's dialogue text,
\* every stray line is the text of some compiled node.
C23_StrayLineIsKept ==
    (/\ cpc = "done"
     /\ Len(script_files) = 1
     /\ \A k \in DOMAIN script_files[1] : ~TakesNextLine(script_files[1][k]))
    => \A k \in DOMAIN script_files[1] :
          StrayLine(script_files[1][k])
          => \E j \in DOMAIN compiled_script.nodes :
                compiled_script.nodes[j].node.text = Strip(script_files[1][k])

\* the text has an expression-form line "@c:<expression>"
ReferencedIn(lines, c) ==
    \E k \in DOMAIN lines :
       ExpressionMatch(Strip(lines[k])) /\ lines[k].name = c

\* the text has a line "@character:c"
DeclaredIn(lines, c) ==
    \E k \in DOMAIN lines :
       /\ StartsWithCommand(Strip(lines[k]), "character")
       /\ lines[k].a = c

\* C24: the flow check reports the character id c as undefined exactly
\* when some line is "@c:<expression>", c is no command name, and no line
\* is "@character:c".
C24_UndefinedCharacters ==
    fpc = "shown"
    => \A c \in {"amy", "bob"} :
          <<c>> \in flow_results.undefined_chars
          <=> (ReferencedIn(editor.lines, c) /\ ~DeclaredIn(editor.lines, c))

\* C25: between two lines of a file, and after the last file, the node map
\* has as many keys as node_counter counts: every creation went under an
\* id that was no key yet, in a second file as well.
C25_NodeIdsAreFresh ==
    cpc \in {"parse", "done"}
    => /\ Len(compiled_script.nodes) = node_counter
       /\ Cardinality(Keys(compiled_script.nodes)) = node_counter

\* the second file of a project has created nodes after those of the first
C25_Witness ==
    /\ cpc = "parse"
    /\ file_idx = 2
    /\ i >= 1
    /\ node_counter >= 4
    /\ \E j \in DOMAIN compiled_script.nodes :
          /\ compiled_script.nodes[j].node.type = "choice"
          /\ j >= 3

\* C26: in a compiled graph every "next" and every option target is a key
\* of the node map, and every Choice node has an option.
C26_CompiledReferencesExist ==
    cpc = "done"
    => \A j \in DOMAIN compiled_script.nodes :
          LET node == compiled_script.nodes[j].node
          IN /\ "next" \in DOMAIN node => node.next \in Keys(compiled_script.nodes)
             /\ node.type = "choice"
                => /\ node.choices # << >>
                   /\ \A k \in DOMAIN node.choices :
                         node.choices[k].target \in Keys(compiled_script.nodes)

\* a file has compiled to a graph with a linked Dialogue node and a Choice
\* node of two options
C26_Witness ==
    /\ cpc = "done"
    /\ Len(script_files) = 1
    /\ \E j, c \in DOMAIN compiled_script.nodes :
          /\ "next" \in DOMAIN compiled_script.nodes[j].node
          /\ "scene" \in DOMAIN compiled_script.nodes[j].node
          /\ compiled_script.nodes[c].node.type = "choice"
          /\ Len(compiled_script.nodes[c].node.choices) = 2

\* C27: the cursor is unset or a key of the loaded script's nodes, and
\* get_current_state never fails on a missing node.
C27_CursorIsValid ==
    /\ current_node # NoNode => (Loaded /\ current_node \in DOMAIN script.nodes)
    /\ last_op = "get_current_state" => outcome = "ok"

\* a story with a link to a missing id has been saved, advanced against
\* that link, loaded again and presented
C27_Witness ==
    /\ OnNode
    /\ last_op = "get_current_state"
    /\ "quicksave" \in DOMAIN saved_at
    /\ saved_at["quicksave"].current_node = "c"
    /\ current_node = "c"
    /\ "next" \in DOMAIN CurrentNode
    /\ CurrentNode.next = Missing

\* C28: a make_choice(i) whose option targets an id that is no key of
\* nodes leaves the store, like the cursor, as it was.
C28_ChoiceIsAllOrNothing ==
    [][(/\ OnNode
        /\ CurrentNode.type = "choice"
        /\ last_op' = "make_choice"
        /\ 0 <= last_arg' /\ last_arg' < Len(CurrentNode.choices)
        /\ CurrentNode.choices[last_arg' + 1].target \notin DOMAIN script.nodes)
       => (current_node' = current_node /\ game_vars' = game_vars)]_vars

\* line k is read by the loop itself, not taken as the dialogue text of
\* the character or expression line before it
RECURSIVE ReadAsLine(_, _)
ReadAsLine(lines, k) ==
    k = 1 \/ ~(ReadAsLine(lines, k - 1) /\ TakesNextLine(lines[k - 1]))

\* the character id of a character or expression line
SpeakerOf(l) == IF l.name = "character" THEN l.a ELSE l.name

\* C29: the text of a compiled node with a speaker is the line that
\* followed a character or expression line of that very speaker.
C29_SpeakerOwnsText ==
    (cpc = "done" /\ Len(script_files) = 1)
    => \A j \in DOMAIN compiled_script.nodes :
          LET node == compiled_script.nodes[j].node
              lines == script_files[1]
          IN "character" \in DOMAIN node
             => \E k \in DOMAIN lines :
                   /\ ReadAsLine(lines, k)
                   /\ TakesNextLine(lines[k])
                   /\ SpeakerOf(lines[k]) = node.character
                   /\ node.text = IF k < Len(lines) THEN Strip(lines[k + 1]) ELSE Blank

\* the loop is running with the cursor on the dialogue node n
OnDialogue(n) ==
    /\ lpc \in {"events", "update", "render"}
    /\ Running
    /\ script # NoScript
    /\ current_node = n
    /\ script.nodes[n].type = "dialogue"

\* C30: while the cursor stays on one dialogue node and the loop keeps
\* running its frames, the displayed text at the end of a frame eventually
\* equals the full text of the node and stays equal to it.
C30_TypewriterCompletes ==
    \A n \in NodeIds :
        <>[]OnDialogue(n)
        => <>[](lpc = "events" /\ OnDialogue(n)
                => gui.displayed_text = Chars(script.nodes[n].text))

====
